---------------------------- MODULE Spec2Model ----------------------------
(***************************************************************************)
(* Student management system: the in-memory record store of                *)
(* student_mgmt.py (add / search / update / delete) and its JSON           *)
(* persistence (load_data / save_data).                                    *)
(*                                                                         *)
(* A Python str is a sequence of one-character strings, so that strip(),   *)
(* lower(), the substring test and the JSON string escaping are computed   *)
(* character by character.                                                 *)
(***************************************************************************)
EXTENDS Integers, Sequences, FiniteSets, TLC

VARIABLES students, file, last

vars == <<students, file, last>>

(***************************************************************************)
(* Bounds                                                                  *)
(***************************************************************************)
MaxStudents == 2

MaxFileLen == 2

(***************************************************************************)
(* str helpers                                                             *)
(***************************************************************************)
Whitespace == {" ", "\t"}

RECURSIVE LStrip(_)
LStrip(s) ==
    IF s # <<>> /\ Head(s) \in Whitespace THEN LStrip(Tail(s)) ELSE s

RECURSIVE RStrip(_)
RStrip(s) ==
    IF s # <<>> /\ s[Len(s)] \in Whitespace
    THEN RStrip(SubSeq(s, 1, Len(s) - 1))
    ELSE s

\* str.strip(): leading and trailing whitespace removed
Strip(s) == RStrip(LStrip(s))

LowerChar(c) ==
    CASE c = "A" -> "a"
      [] c = "B" -> "b"
      [] c = "N" -> "n"
      [] OTHER -> c

\* str.lower()
Lower(s) == [i \in 1..Len(s) |-> LowerChar(s[i])]

\* q in s   (substring test on str)
Contains(q, s) ==
    \E i \in 0..(Len(s) - Len(q)) : SubSeq(s, i + 1, i + Len(q)) = q

(***************************************************************************)
(* Records of the store: dicts with the four keys                          *)
(***************************************************************************)
Keys == {"roll_no", "name", "grade", "age"}

Student(r, n, g, a) == [roll_no |-> r, name |-> n, grade |-> g, age |-> a]

\* Optional[str] arguments: None is given = FALSE
None == [given |-> FALSE, val |-> <<>>]

Some(s) == [given |-> TRUE, val |-> s]

(***************************************************************************)
(* Record store operations, as functions of the list they work on          *)
(***************************************************************************)
RECURSIVE FirstIndex(_, _, _)
\* index of the first record from position i on whose roll_no is r, 0 if none
FirstIndex(stu, r, i) ==
    IF i > Len(stu) THEN 0
    ELSE IF stu[i].roll_no = r THEN i
    ELSE FirstIndex(stu, r, i + 1)

\* search_by_roll: position of the dict the for loop returns (0 for None)
search_by_roll(stu, roll_no) == FirstIndex(stu, Strip(roll_no), 1)

RECURSIVE Filter(_, _)
Filter(stu, q) ==
    IF stu = <<>> THEN <<>>
    ELSE IF Contains(q, Lower(Head(stu).name))
         THEN <<Head(stu)>> \o Filter(Tail(stu), q)
         ELSE Filter(Tail(stu), q)

\* mutant: the query is not lowercased
search_by_name_part_nolower(stu, name_part) == Filter(stu, Strip(name_part))

search_by_name_part(stu, name_part) == Filter(stu, Lower(Strip(name_part)))

\* mutant: the name is stored as given, untrimmed
add_student_record_untrimmed(stu, roll_no, name, grade, age) ==
    LET r == Strip(roll_no)
        n == Strip(name)
        g == Strip(grade)
        a == Strip(age)
    IN  IF r = <<>> \/ n = <<>> \/ g = <<>>
        THEN [ret |-> FALSE, students |-> stu]
        ELSE IF \E i \in 1..Len(stu) : stu[i].roll_no = r
        THEN [ret |-> FALSE, students |-> stu]
        ELSE [ret |-> TRUE, students |-> Append(stu, Student(r, name, g, a))]

\* mutant: no uniqueness check
add_student_record_nodupcheck(stu, roll_no, name, grade, age) ==
    LET r == Strip(roll_no)
        n == Strip(name)
        g == Strip(grade)
        a == Strip(age)
    IN  IF r = <<>> \/ n = <<>> \/ g = <<>>
        THEN [ret |-> FALSE, students |-> stu]
        ELSE [ret |-> TRUE, students |-> Append(stu, Student(r, n, g, a))]

add_student_record(stu, roll_no, name, grade, age) ==
    LET r == Strip(roll_no)
        n == Strip(name)
        g == Strip(grade)
        a == Strip(age)
    IN  IF r = <<>> \/ n = <<>> \/ g = <<>>
        THEN [ret |-> FALSE, students |-> stu]
        ELSE IF \E i \in 1..Len(stu) : stu[i].roll_no = r
        THEN [ret |-> FALSE, students |-> stu]
        ELSE [ret |-> TRUE, students |-> Append(stu, Student(r, n, g, a))]

\* mutant: age treated like name and grade, applied only when non-empty
update_student_record_agenonempty(stu, roll_no, name, grade, age) ==
    LET i == search_by_roll(stu, roll_no)
    IN  IF i = 0
        THEN [ret |-> FALSE, students |-> stu]
        ELSE LET s0 == stu[i]
                 s1 == IF name.given /\ Strip(name.val) # <<>>
                       THEN [s0 EXCEPT !.name = Strip(name.val)] ELSE s0
                 s2 == IF grade.given /\ Strip(grade.val) # <<>>
                       THEN [s1 EXCEPT !.grade = Strip(grade.val)] ELSE s1
                 s3 == IF age.given /\ Strip(age.val) # <<>>
                       THEN [s2 EXCEPT !.age = Strip(age.val)] ELSE s2
             IN  [ret |-> TRUE, students |-> [stu EXCEPT ![i] = s3]]

\* mutant: name and grade applied whenever given, empty or not
update_student_record_allowempty(stu, roll_no, name, grade, age) ==
    LET i == search_by_roll(stu, roll_no)
    IN  IF i = 0
        THEN [ret |-> FALSE, students |-> stu]
        ELSE LET s0 == stu[i]
                 s1 == IF name.given
                       THEN [s0 EXCEPT !.name = Strip(name.val)] ELSE s0
                 s2 == IF grade.given
                       THEN [s1 EXCEPT !.grade = Strip(grade.val)] ELSE s1
                 s3 == IF age.given
                       THEN [s2 EXCEPT !.age = Strip(age.val)] ELSE s2
             IN  [ret |-> TRUE, students |-> [stu EXCEPT ![i] = s3]]

\* mutant: every record with that roll_no is updated, not only the first
update_student_record_all(stu, roll_no, name, grade, age) ==
    LET i == search_by_roll(stu, roll_no)
        Upd(s0) ==
            LET s1 == IF name.given /\ Strip(name.val) # <<>>
                      THEN [s0 EXCEPT !.name = Strip(name.val)] ELSE s0
                s2 == IF grade.given /\ Strip(grade.val) # <<>>
                      THEN [s1 EXCEPT !.grade = Strip(grade.val)] ELSE s1
            IN  IF age.given THEN [s2 EXCEPT !.age = Strip(age.val)] ELSE s2
    IN  IF i = 0
        THEN [ret |-> FALSE, students |-> stu]
        ELSE [ret |-> TRUE,
              students |-> [j \in 1..Len(stu) |->
                              IF stu[j].roll_no = Strip(roll_no)
                              THEN Upd(stu[j]) ELSE stu[j]]]

update_student_record(stu, roll_no, name, grade, age) ==
    LET i == search_by_roll(stu, roll_no)
    IN  IF i = 0
        THEN [ret |-> FALSE, students |-> stu]
        ELSE LET s0 == stu[i]
                 s1 == IF name.given /\ Strip(name.val) # <<>>
                       THEN [s0 EXCEPT !.name = Strip(name.val)] ELSE s0
                 s2 == IF grade.given /\ Strip(grade.val) # <<>>
                       THEN [s1 EXCEPT !.grade = Strip(grade.val)] ELSE s1
                 s3 == IF age.given
                       THEN [s2 EXCEPT !.age = Strip(age.val)] ELSE s2
             IN  [ret |-> TRUE, students |-> [stu EXCEPT ![i] = s3]]

RECURSIVE list_remove(_, _)
\* list.remove(x): drops the first element equal (==) to x
list_remove(l, x) ==
    IF l = <<>> THEN <<>>
    ELSE IF Head(l) = x THEN Tail(l)
    ELSE <<Head(l)>> \o list_remove(Tail(l), x)

\* mutant: every record with that roll_no is dropped, not only the first
delete_student_record_all(stu, roll_no) ==
    LET i == search_by_roll(stu, roll_no)
        Keep(s) == s.roll_no # Strip(roll_no)
    IN  IF i = 0
        THEN [ret |-> FALSE, students |-> stu]
        ELSE [ret |-> TRUE, students |-> SelectSeq(stu, Keep)]

delete_student_record(stu, roll_no) ==
    LET i == search_by_roll(stu, roll_no)
    IN  IF i = 0
        THEN [ret |-> FALSE, students |-> stu]
        ELSE [ret |-> TRUE, students |-> list_remove(stu, stu[i])]

(***************************************************************************)
(* JSON documents.  A file is missing, or holds text that json.load        *)
(* rejects ("invalid"), or a JSON value that is not a list ("other"), or a *)
(* list of items.  An item is an object or something else ("scalar"); an   *)
(* object maps each of the four keys to a JSON value:                      *)
(*   t = "absent"  the key is not in the object                            *)
(*   t = "null"    null                                                    *)
(*   t = "str"     a string, s being the text between its quotes           *)
(*   t = "num"     an integer, s being its digits                          *)
(***************************************************************************)
JAbsent == [t |-> "absent", s |-> <<>>]

JNull == [t |-> "null", s |-> <<>>]

JStr(lit) == [t |-> "str", s |-> lit]

JNum(digits) == [t |-> "num", s |-> digits]

JObject(r, n, g, a) ==
    [kind |-> "object",
     f |-> [k \in Keys |-> CASE k = "roll_no" -> r [] k = "name" -> n
                             [] k = "grade" -> g [] OTHER -> a]]

JScalar == [kind |-> "scalar", f |-> [k \in Keys |-> JAbsent]]

NoFile == [exists |-> FALSE, kind |-> "none", items |-> <<>>]

JDoc(kind, items) == [exists |-> TRUE, kind |-> kind, items |-> items]

\* mutant: no escaping
EncodeChar_raw(c) == <<c>>

\* json encoder: the text written between the quotes for one character
EncodeChar(c) ==
    CASE c = "\"" -> <<"\\", "\"">>
      [] c = "\\" -> <<"\\", "\\">>
      [] c = "\t" -> <<"\\", "t">>
      [] OTHER -> <<c>>

RECURSIVE EncodeString(_)
EncodeString(s) ==
    IF s = <<>> THEN <<>> ELSE EncodeChar(Head(s)) \o EncodeString(Tail(s))

RECURSIVE DecodeString(_)
\* json decoder on the text between the quotes: ok = FALSE when the scanner
\* rejects it (a bare quote ends the string early, a bare control character,
\* an unknown or cut-off escape)
DecodeString(lit) ==
    IF lit = <<>> THEN [ok |-> TRUE, val |-> <<>>]
    ELSE IF Head(lit) = "\\"
    THEN IF Len(lit) < 2 \/ lit[2] \notin {"\"", "\\", "t"}
         THEN [ok |-> FALSE, val |-> <<>>]
         ELSE LET rest == DecodeString(SubSeq(lit, 3, Len(lit)))
                  c == IF lit[2] = "t" THEN "\t" ELSE lit[2]
              IN  [ok |-> rest.ok, val |-> <<c>> \o rest.val]
    ELSE IF Head(lit) \in {"\"", "\t"}
    THEN [ok |-> FALSE, val |-> <<>>]
    ELSE LET rest == DecodeString(Tail(lit))
         IN  [ok |-> rest.ok, val |-> <<Head(lit)>> \o rest.val]

\* json.dump(students, f, indent=2, ensure_ascii=False)
json_dump(stu) ==
    JDoc("list",
         [i \in 1..Len(stu) |->
            JObject(JStr(EncodeString(stu[i].roll_no)),
                    JStr(EncodeString(stu[i].name)),
                    JStr(EncodeString(stu[i].grade)),
                    JStr(EncodeString(stu[i].age)))])

\* json.load succeeds: the text parses, every string literal in it included
json_load_ok(doc) ==
    /\ doc.kind # "invalid"
    /\ \A i \in 1..Len(doc.items) : \A k \in Keys :
          doc.items[i].f[k].t = "str" => DecodeString(doc.items[i].f[k].s).ok

\* str(s.get(key, "")) on a parsed object
StrOfGet(obj, k) ==
    LET v == obj.f[k]
    IN  CASE v.t = "absent" -> <<>>
          [] v.t = "null" -> <<"N", "o", "n", "e">>
          [] v.t = "str" -> DecodeString(v.s).val
          [] OTHER -> v.s

\* s.get("age") not in (None, "")
AgePresent(obj) ==
    LET v == obj.f["age"]
    IN  CASE v.t = "absent" -> FALSE
          [] v.t = "null" -> FALSE
          [] v.t = "str" -> DecodeString(v.s).val # <<>>
          [] OTHER -> TRUE

RECURSIVE Cleaned(_)
Cleaned(items) ==
    IF items = <<>> THEN <<>>
    ELSE IF Head(items).kind = "object"
    THEN <<Student(Strip(StrOfGet(Head(items), "roll_no")),
                   Strip(StrOfGet(Head(items), "name")),
                   Strip(StrOfGet(Head(items), "grade")),
                   IF AgePresent(Head(items))
                   THEN Strip(StrOfGet(Head(items), "age")) ELSE <<>>)>>
         \o Cleaned(Tail(items))
    ELSE Cleaned(Tail(items))

load_data(f) ==
    IF ~f.exists THEN <<>>
    ELSE IF ~json_load_ok(f) THEN <<>>
    ELSE IF f.kind = "list" THEN Cleaned(f.items)
    ELSE <<>>

save_data(stu) == json_dump(stu)

(***************************************************************************)
(* Inputs of the calls                                                     *)
(***************************************************************************)
RollArgs == {<<" ">>, <<"1">>, <<" ", "1", "\t">>, <<"2">>, <<"3", " ">>}

NameArgs == {<<>>, <<" ", "A", "b", " ">>, <<"b", "\"">>}

GradeArgs == {<<"\t", " ">>, <<"A">>, <<" ", "B">>}

AgeArgs == {<<>>, <<" ", "5">>}

NamePartArgs ==
    {<<>>, <<" ">>, <<"a">>, <<"B", " ">>, <<"A", "B">>, <<"\"">>, <<"1">>}

\* smaller sets, for the runs where the data file multiplies the states
RollArgsP == {<<" ", "1">>, <<"2">>}

NameArgsP == {<<" ">>, <<"b", "\"">>, <<"A", "\t", "\\">>}

GradeArgsP == {<<"A">>}

AgeArgsP == {<<>>, <<"5", " ">>}

Opt(S) == {None} \cup {Some(s) : s \in S}

\* items a data file may hold
FileItems ==
    { JObject(JStr(<<"1">>), JStr(<<"A", "b">>), JStr(<<"A">>), JNull),
      JObject(JStr(<<" ", "1">>), JStr(<<"b", "\\", "\"">>), JNull,
              JNum(<<"5">>)),
      JObject(JStr(<<"2">>), JAbsent, JStr(<<"A">>), JStr(<<>>)),
      JScalar }

RECURSIVE SeqsUpTo(_, _)
SeqsUpTo(S, n) ==
    IF n = 0 THEN {<<>>}
    ELSE LET shorter == SeqsUpTo(S, n - 1)
         IN  shorter \cup {Append(q, x) : q \in shorter, x \in S}

Files ==
    {NoFile, JDoc("invalid", <<>>), JDoc("other", <<>>),
     JDoc("list", <<JObject(JStr(<<"1">>), JStr(<<"\"">>), JNull, JNull)>>)}
        \cup {JDoc("list", items) : items \in SeqsUpTo(FileItems, MaxFileLen)}

(***************************************************************************)
(* State: the module-level list `students`, the content of the data file,  *)
(* and the call just made, with its arguments and result, until the caller *)
(* is back at its prompt.                                                  *)
(***************************************************************************)
Call(op, roll_no, name, grade, age, ret, out) ==
    [op |-> op, roll_no |-> roll_no, name |-> name, grade |-> grade,
     age |-> age, ret |-> ret, out |-> out]

NoCall == Call("none", <<>>, None, None, None, FALSE, <<>>)

\* the module as imported: students = [], no data file
Init ==
    /\ students = <<>>
    /\ file = NoFile
    /\ last = NoCall

\* main(): students = load_data(), whatever data.json holds
InitLoad ==
    /\ file \in Files
    /\ students = load_data(file)
    /\ last = NoCall

Add(roll_no, name, grade, age) ==
    LET res == add_student_record(students, roll_no, name, grade, age)
    IN  /\ last.op = "none"
        /\ Len(res.students) <= MaxStudents
        /\ students' = res.students
        /\ last' = Call("add", roll_no, Some(name), Some(grade), Some(age),
                        res.ret, <<>>)
        /\ UNCHANGED file

FindByRoll(roll_no) ==
    LET i == search_by_roll(students, roll_no)
    IN  /\ last.op = "none"
        /\ last' = Call("find_roll", roll_no, None, None, None, i # 0,
                        IF i = 0 THEN <<>> ELSE <<students[i]>>)
        /\ UNCHANGED <<students, file>>

FindByNamePart(name_part) ==
    /\ last.op = "none"
    /\ last' = Call("find_name", <<>>, Some(name_part), None, None, TRUE,
                    search_by_name_part(students, name_part))
    /\ UNCHANGED <<students, file>>

Update(roll_no, name, grade, age) ==
    LET res == update_student_record(students, roll_no, name, grade, age)
    IN  /\ last.op = "none"
        /\ students' = res.students
        /\ last' = Call("update", roll_no, name, grade, age, res.ret, <<>>)
        /\ UNCHANGED file

Delete(roll_no) ==
    LET res == delete_student_record(students, roll_no)
    IN  /\ last.op = "none"
        /\ students' = res.students
        /\ last' = Call("delete", roll_no, None, None, None, res.ret, <<>>)
        /\ UNCHANGED file

Save ==
    /\ last.op = "none"
    /\ file' = save_data(students)
    /\ last' = Call("save", <<>>, None, None, None, TRUE, <<>>)
    /\ UNCHANGED students

Load ==
    /\ last.op = "none"
    /\ last' = Call("load", <<>>, None, None, None, TRUE, load_data(file))
    /\ UNCHANGED <<students, file>>

\* the caller has used the result and is back at its prompt
Prompt ==
    /\ last.op # "none"
    /\ last' = NoCall
    /\ UNCHANGED <<students, file>>

\* the record store on its own
Next ==
    \/ \E r \in RollArgs, n \in NameArgs, g \in GradeArgs, a \in AgeArgs :
          Add(r, n, g, a)
    \/ \E r \in RollArgs : FindByRoll(r)
    \/ \E q \in NamePartArgs : FindByNamePart(q)
    \/ \E r \in RollArgs, n \in Opt(NameArgs), g \in Opt(GradeArgs),
          a \in Opt(AgeArgs) : Update(r, n, g, a)
    \/ \E r \in RollArgs : Delete(r)
    \/ Prompt

\* the record store and the data file
NextPersist ==
    \/ \E r \in RollArgsP, n \in NameArgsP, g \in GradeArgsP, a \in AgeArgsP :
          Add(r, n, g, a)
    \/ \E r \in RollArgsP, n \in Opt(NameArgsP), g \in Opt(GradeArgsP),
          a \in Opt(AgeArgsP) : Update(r, n, g, a)
    \/ \E r \in RollArgsP : Delete(r)
    \/ Save
    \/ Load
    \/ Prompt

\* the record store after main() has loaded the data file
NextLoad ==
    \/ \E r \in RollArgsP, n \in NameArgsP, g \in GradeArgsP, a \in AgeArgsP :
          Add(r, n, g, a)
    \/ \E r \in RollArgsP : FindByRoll(r)
    \/ \E r \in RollArgsP, n \in Opt(NameArgsP), g \in Opt(GradeArgsP),
          a \in Opt(AgeArgsP) : Update(r, n, g, a)
    \/ \E r \in RollArgsP : Delete(r)
    \/ Prompt

Spec == Init /\ [][Next]_vars

SpecPersist == Init /\ [][NextPersist]_vars

SpecLoad == InitLoad /\ [][NextLoad]_vars

(***************************************************************************)
(* Properties                                                              *)
(***************************************************************************)
HasRoll(stu, r) == \E i \in 1..Len(stu) : stu[i].roll_no = r

\* l with its i-th element taken out
WithoutAt(l, i) == SubSeq(l, 1, i - 1) \o SubSeq(l, i + 1, Len(l))

\* C1: no two records of the store have the same roll_no, in a store that
\* main() populated from the data file as well.
UniqueRollNo ==
    \A i, j \in 1..Len(students) :
        i # j => students[i].roll_no # students[j].roll_no

\* C2: an Add whose roll_no, name and grade are non-empty after trimming and
\* whose trimmed roll_no is not in the store returns true, appends exactly one
\* record at the end, and FindByRoll on that roll_no then returns a record
\* holding the four trimmed inputs.
AddAppendsTrimmed ==
    [][ ( /\ last'.op = "add"
          /\ Strip(last'.roll_no) # <<>>
          /\ Strip(last'.name.val) # <<>>
          /\ Strip(last'.grade.val) # <<>>
          /\ ~HasRoll(students, Strip(last'.roll_no)) )
        => LET rec == Student(Strip(last'.roll_no), Strip(last'.name.val),
                              Strip(last'.grade.val), Strip(last'.age.val))
               i == search_by_roll(students', last'.roll_no)
           IN  /\ last'.ret
               /\ students' = students \o <<rec>>
               /\ i # 0
               /\ students'[i] = rec ]_vars

AddAppendsTrimmedWitness ==
    /\ last.op = "add"
    /\ last.ret
    /\ Len(students) = 2
    /\ last.roll_no # Strip(last.roll_no)
    /\ last.name.val # Strip(last.name.val)

\* C3: a failing mutation (an Add with an empty required field or a roll_no
\* already in the store, an Update or Delete whose trimmed roll_no matches no
\* record) returns false and leaves the store as it was.
FailureLeavesStore ==
    [][ ( \/ /\ last'.op = "add"
             /\ \/ Strip(last'.roll_no) = <<>>
                \/ Strip(last'.name.val) = <<>>
                \/ Strip(last'.grade.val) = <<>>
                \/ HasRoll(students, Strip(last'.roll_no))
          \/ /\ last'.op \in {"update", "delete"}
             /\ ~HasRoll(students, Strip(last'.roll_no)) )
        => (~last'.ret /\ students' = students) ]_vars

FailureLeavesStoreWitness ==
    /\ last.op = "add"
    /\ ~last.ret
    /\ Strip(last.name.val) # <<>>
    /\ Strip(last.grade.val) # <<>>
    /\ HasRoll(students, Strip(last.roll_no))
    /\ Len(students) < MaxStudents

\* C4: an Update of a roll_no that is in the store returns true; the target's
\* name (grade) is the trimmed new value if one was given and is non-empty
\* after trimming and is unchanged otherwise; its age is the trimmed new
\* value whenever one was given, the empty string included.
UpdateFields ==
    [][ (last'.op = "update" /\ HasRoll(students, Strip(last'.roll_no)))
        => LET i == search_by_roll(students, last'.roll_no)
               u == last'
           IN  /\ u.ret
               /\ students'[i].name =
                    IF u.name.given /\ Strip(u.name.val) # <<>>
                    THEN Strip(u.name.val) ELSE students[i].name
               /\ students'[i].grade =
                    IF u.grade.given /\ Strip(u.grade.val) # <<>>
                    THEN Strip(u.grade.val) ELSE students[i].grade
               /\ students'[i].age =
                    IF u.age.given THEN Strip(u.age.val)
                    ELSE students[i].age ]_vars

UpdateFieldsWitness ==
    /\ last.op = "update"
    /\ last.ret
    /\ last.name.given /\ Strip(last.name.val) = <<>>
    /\ last.grade.given /\ Strip(last.grade.val) # <<>>
    /\ last.age = Some(<<>>)

\* C5: when Delete(r) returns true, FindByRoll(r) right after it returns
\* absent, in a store populated from the data file as well.
DeleteThenAbsent ==
    (last.op = "delete" /\ last.ret)
        => search_by_roll(students, last.roll_no) = 0

SaveLoadRoundTrip ==
    last.op = "save" => load_data(file) = students

SaveLoadRoundTripWitness ==
    /\ last.op = "save"
    /\ Len(students) = 2
    /\ \E i \in 1..2 : Contains(<<"\"">>, students[i].name)
    /\ \E i \in 1..2 : Contains(<<"\t">>, students[i].name)
    /\ load_data(file) = students

\* C8: FindByNamePart(q) leaves the store alone and returns, in store order,
\* exactly the records whose lowercased name contains the trimmed, lowercased
\* q; every record when q is empty after trimming.
FindByNamePartResult ==
    [][ last'.op = "find_name"
        => LET q == Lower(Strip(last'.name.val))
               Match(s) == Contains(q, Lower(s.name))
           IN  /\ students' = students
               /\ last'.out = SelectSeq(students, Match)
               /\ (Strip(last'.name.val) = <<>> => last'.out = students) ]_vars

FindByNamePartResultWitness ==
    /\ last.op = "find_name"
    /\ last.name.val = <<"B", " ">>
    /\ Len(students) = 2
    /\ Len(last.out) = 2
    /\ students[1].name # students[2].name

\* C9: every record of a store built from the empty store by Add, Update and
\* Delete calls has a non-empty roll_no, name and grade.
RequiredFieldsNonEmpty ==
    \A i \in 1..Len(students) :
        /\ students[i].roll_no # <<>>
        /\ students[i].name # <<>>
        /\ students[i].grade # <<>>

RequiredFieldsNonEmptyWitness ==
    /\ last.op = "update"
    /\ last.ret
    /\ last.name = Some(<<>>)
    /\ last.grade = Some(<<"\t", " ">>)
    /\ RequiredFieldsNonEmpty

\* C10: an Update never changes the number of records, their order, any
\* roll_no, or any record other than the first one whose roll_no is the
\* trimmed roll_no argument.
UpdateFrame ==
    [][ last'.op = "update"
        => LET i == search_by_roll(students, last'.roll_no)
           IN  /\ Len(students') = Len(students)
               /\ \A j \in 1..Len(students) :
                     /\ students'[j].roll_no = students[j].roll_no
                     /\ (j # i => students'[j] = students[j]) ]_vars

UpdateFrameWitness ==
    /\ last.op = "update"
    /\ last.ret
    /\ Len(students) = 2
    /\ students[1].roll_no = students[2].roll_no
    /\ students[1].age # students[2].age
    /\ last.age.given

=============================================================================
